---- MODULE Spec2Model ----
(***************************************************************************)
(* Model of the openHAB persistence export wizard (src/app.js and the      *)
(* helper library it imports).  The state is the wizard's two module       *)
(* variables (currentStep, exportFormData), the form fields and the        *)
(* elements of the download page the handlers write to, and the export     *)
(* invocations (handleDownload) that are awaiting a network response.      *)
(* An invocation that completes leaves `exports`; the step that completes  *)
(* it shows it in `completed` until handleDownload has returned, which is  *)
(* before the next listener runs.                                          *)
(*                                                                         *)
(* Strings the code inspects are modelled by their structure:              *)
(*   - an item name is a sequence of one-character strings (trim() works   *)
(*     on it);                                                             *)
(*   - the value of the date range input is a sequence of tokens, a token  *)
(*     being one date or the separator " to " (split(" to ") works on it); *)
(*   - a message is a record holding its template and the values that are  *)
(*     interpolated into it;                                               *)
(*   - the text of a CSV file, a timestamp and a datapoint's state are     *)
(*     sequences of characters (escapeCSVField and formatLocalISO work on  *)
(*     them).                                                              *)
(*                                                                         *)
(* A second specification, PureSpec, calls the two functions of the helper *)
(* library on their own, on arguments drawn from bounded sets.             *)
(***************************************************************************)
EXTENDS Integers, Sequences, FiniteSets, Bags, TLC

VARIABLES
    loaded,                   \* DOMContentLoaded has fired
    currentStep,              \* app.js: let currentStep
    exportFormData,           \* app.js: let exportFormData
    itemNameField,            \* #itemName .value
    dateRangeField,           \* #dateRange .value
    fileFormatField,          \* the checked input[name=fileFormat]
    itemNameError,            \* #itemNameError .textContent
    dateRangeError,           \* #dateRangeError .textContent
    downloadErrorText,        \* #downloadError .textContent
    downloadErrorDisplay,     \* #downloadError .style.display
    downloadContainerDisplay, \* #downloadContainer .style.display
    exports,                  \* the bag of handleDownload invocations in flight
    completed,                \* the invocation that has just completed, else NULL
    pure                      \* a call of a lib.js function on its own, else NULL

vars == <<loaded, currentStep, exportFormData, itemNameField,
          dateRangeField, fileFormatField, itemNameError, dateRangeError,
          downloadErrorText, downloadErrorDisplay, downloadContainerDisplay,
          exports, completed, pure>>

wizardVars == <<loaded, currentStep, exportFormData, itemNameField,
                dateRangeField, fileFormatField, itemNameError,
                dateRangeError, downloadErrorText, downloadErrorDisplay,
                downloadContainerDisplay, exports, completed>>

formVars == <<itemNameField, dateRangeField, fileFormatField>>
fieldErrorVars == <<itemNameError, dateRangeError>>
downloadPageVars == <<downloadErrorText, downloadErrorDisplay,
                      downloadContainerDisplay>>

-----------------------------------------------------------------------------
(* Bounds *)

\* number of handleDownload invocations that await a response at one time
MaxInFlight == 2

\* the day new Date() falls on (days are counted as integers)
Today == 40

\* length of the strings escapeCSVField is called with on its own
MaxFieldLen == 2

-----------------------------------------------------------------------------
(* Program constants and data *)

totalSteps == 4

\* initialDatePickerRange: the range starts 30 days before today
RangeDays == 30

NULL == [null |-> TRUE]

NaN == -1

\* the values of the two fileFormat radio inputs
FileFormats == {"CSV", "JSON"}

\* ---- item names: sequences of characters ----
ItemNameInputs == { <<" ">>, <<"a", " ">> }

\* URLSearchParams.get("itemname"): null when the parameter is absent, else
\* its value (empty, blank, or a name)
QueryValues ==
    { [present |-> FALSE, value |-> <<>>],
      [present |-> TRUE, value |-> <<>>],
      [present |-> TRUE, value |-> <<" ">>],
      [present |-> TRUE, value |-> <<"a", " ">>] }

\* ---- dates and the date range input ----
Ymd(d) == [kind |-> "date", fmt |-> "Y-m-d", day |-> d]

\* Date.prototype.toString(), as produced by Array.prototype.join on Dates
DateToString(d) == [kind |-> "date", fmt |-> "toString", day |-> d]

ToSep == [kind |-> "sep", fmt |-> " to ", day |-> 0]

\* what flatpickr can write into #dateRange: nothing (cleared), the first
\* date of a range, a range, and (not through the picker) a reversed range
DateRangeInputs ==
    { <<>>,
      <<Ymd(Today - RangeDays)>>,
      <<Ymd(Today - RangeDays), ToSep, Ymd(Today)>>,
      <<Ymd(Today), ToSep, Ymd(Today - RangeDays)>> }

\* ---- messages ----
EmptyText == [template |-> ""]

\* ---- backend responses ----
UnitResponses ==
    { [kind |-> "reject"],
      [kind |-> "status", ok |-> FALSE, status |-> 404],
      [kind |-> "badJson"],
      [kind |-> "json", hasUnit |-> FALSE, unitSymbol |-> <<>>],
      [kind |-> "json", hasUnit |-> TRUE, unitSymbol |-> <<"k", "W">>] }

\* ---- instants ----
\* A Date object, by what its getters return: the local fields read by
\* formatLocalISO (getFullYear, getMonth, ..., getTimezoneOffset), the
\* milliseconds, the UTC fields toISOString prints, and the number of the
\* UTC day the instant falls on (day 1 is 2024-01-01).
DateA ==
    [utcDay |-> 20,
     utc |-> [year |-> 2024, month |-> 0, date |-> 20,
              hours |-> 10, minutes |-> 30, seconds |-> 5],
     year |-> 2024, month |-> 0, date |-> 20,
     hours |-> 11, minutes |-> 30, seconds |-> 5,
     ms |-> 0, timezoneOffset |-> -60]

DateB ==
    [utcDay |-> 15,
     utc |-> [year |-> 2024, month |-> 0, date |-> 15,
              hours |-> 23, minutes |-> 59, seconds |-> 59],
     year |-> 2024, month |-> 0, date |-> 16,
     hours |-> 0, minutes |-> 59, seconds |-> 59,
     ms |-> 500, timezoneOffset |-> -60]

DateC ==
    [utcDay |-> 5,
     utc |-> [year |-> 2024, month |-> 0, date |-> 5,
              hours |-> 12, minutes |-> 0, seconds |-> 0],
     year |-> 2024, month |-> 0, date |-> 5,
     hours |-> 13, minutes |-> 0, seconds |-> 0,
     ms |-> 0, timezoneOffset |-> -60]

\* a datapoint of the history response: its instant and its state, the state
\* being a string (a sequence of characters)
Datapoint(t, s) == [time |-> t, state |-> s]

\* the history responses: a network error, a non-2xx status, a body that is
\* not JSON, a body without data, with no datapoints, with two datapoints of
\* the requested days (the later one first), and with a datapoint of an
\* earlier day whose state holds a comma
HistoryResponses ==
    { [kind |-> "reject"],
      [kind |-> "status", ok |-> FALSE, status |-> 500],
      [kind |-> "badJson"],
      [kind |-> "json", hasData |-> FALSE, data |-> <<>>],
      [kind |-> "json", hasData |-> TRUE, data |-> <<>>],
      [kind |-> "json", hasData |-> TRUE,
       data |-> <<Datapoint(DateA, <<"7">>), Datapoint(DateB, <<"5">>)>>],
      [kind |-> "json", hasData |-> TRUE,
       data |-> <<Datapoint(DateC, <<"1", ",", "2">>)>>] }

-----------------------------------------------------------------------------
(* Text: a string the code builds or inspects character by character is a *)
(* sequence of pieces, a piece being one character or (for the column      *)
(* titles) a run of letters and blanks.                                    *)

DQ == "\""
CR == "\r"
LF == "\n"
COMMA == ","

DigitChars == <<"0", "1", "2", "3", "4", "5", "6", "7", "8", "9">>

\* String(n) of a non-negative integer
RECURSIVE Decimal(_)
Decimal(n) ==
    IF n < 10 THEN <<DigitChars[n + 1]>>
    ELSE Decimal(n \div 10) \o <<DigitChars[(n % 10) + 1]>>

\* String(n), "" + n
NumberToString(n) == IF n < 0 THEN <<"-">> \o Decimal(-n) ELSE Decimal(n)

\* String.prototype.padStart(width, "0") of a number, as toISOString pads
PadStart(n, width) ==
    LET s == NumberToString(n)
    IN  [k \in 1..(IF Len(s) < width THEN width - Len(s) ELSE 0) |-> "0"] \o s

\* Array.prototype.join
RECURSIVE Join(_, _)
Join(parts, sep) ==
    IF parts = <<>> THEN <<>>
    ELSE IF Len(parts) = 1 THEN parts[1]
    ELSE parts[1] \o sep \o Join(Tail(parts), sep)

\* Array.prototype.join("")
RECURSIVE Concat(_)
Concat(parts) == IF parts = <<>> THEN <<>> ELSE Head(parts) \o Concat(Tail(parts))

-----------------------------------------------------------------------------
(* lib.js *)

\* pad without the leading zero
padNone(n) == NumberToString(n)

\* const pad = (n) => (n < 10 ? "0" + n : "" + n)
pad(n) == IF n < 10 THEN <<"0">> \o NumberToString(n) ELSE NumberToString(n)

\* formatLocalISO(d)
formatLocalISO(d) ==
    LET year == NumberToString(d.year)
        month == pad(d.month + 1)
        day == pad(d.date)
        hours == pad(d.hours)
        minutes == pad(d.minutes)
        seconds == pad(d.seconds)
        tzOffsetMin == -d.timezoneOffset
        sign == IF tzOffsetMin >= 0 THEN "+" ELSE "-"
        absMin == IF tzOffsetMin < 0 THEN -tzOffsetMin ELSE tzOffsetMin
        tzHours == pad(absMin \div 60)
        tzMins == pad(absMin % 60)
    IN  year \o <<"-">> \o month \o <<"-">> \o day \o <<"T">> \o hours
        \o <<":">> \o minutes \o <<":">> \o seconds \o <<sign>> \o tzHours
        \o <<":">> \o tzMins

\* Date.prototype.toISOString(): YYYY-MM-DDTHH:mm:ss.sssZ of the UTC fields
toISOString(d) ==
    PadStart(d.utc.year, 4) \o <<"-">> \o PadStart(d.utc.month + 1, 2)
    \o <<"-">> \o PadStart(d.utc.date, 2) \o <<"T">>
    \o PadStart(d.utc.hours, 2) \o <<":">> \o PadStart(d.utc.minutes, 2)
    \o <<":">> \o PadStart(d.utc.seconds, 2) \o <<".">>
    \o PadStart(d.ms, 3) \o <<"Z">>

\* new RegExp(`[${delimiter}"\r\n]`): the character class the pattern
\* denotes.  The delimiter is pasted into the class unescaped: "]" closes
\* the class at once (an empty class, which matches nothing, followed by
\* literals), "^" negates it, a backslash escapes the quote after it.
RegExpClass(delimiter) ==
    CASE delimiter = "]" -> [never |-> TRUE, negated |-> FALSE, chars |-> {}]
      [] delimiter = "^" ->
            [never |-> FALSE, negated |-> TRUE, chars |-> {DQ, CR, LF}]
      [] delimiter = "\\" ->
            [never |-> FALSE, negated |-> FALSE, chars |-> {DQ, CR, LF}]
      [] OTHER ->
            [never |-> FALSE, negated |-> FALSE,
             chars |-> {delimiter, DQ, CR, LF}]

\* RegExp.prototype.test(str)
RegExpTest(class, str) ==
    /\ ~class.never
    /\ \E k \in 1..Len(str) :
          IF class.negated THEN str[k] \notin class.chars
          ELSE str[k] \in class.chars

\* str.replace(/"/g, '""')
RECURSIVE DoubleQuotes(_)
DoubleQuotes(str) ==
    IF str = <<>> THEN <<>>
    ELSE (IF Head(str) = DQ THEN <<DQ, DQ>> ELSE <<Head(str)>>)
         \o DoubleQuotes(Tail(str))

\* escapeCSVField that never quotes
escapeCSVFieldRaw(s, delimiter) == s

\* escapeCSVField(s, delimiter) for a string s
escapeCSVField(s, delimiter) ==
    LET needsQuotes == RegExpTest(RegExpClass(delimiter), s)
    IN  IF needsQuotes THEN <<DQ>> \o DoubleQuotes(s) \o <<DQ>> ELSE s

-----------------------------------------------------------------------------
(* Pure helpers *)

IsSpace(c) == c = " "

RECURSIVE TrimStart(_)
TrimStart(s) ==
    IF s = <<>> THEN <<>>
    ELSE IF IsSpace(Head(s)) THEN TrimStart(Tail(s)) ELSE s

RECURSIVE TrimEnd(_)
TrimEnd(s) ==
    IF s = <<>> THEN <<>>
    ELSE IF IsSpace(s[Len(s)]) THEN TrimEnd(SubSeq(s, 1, Len(s) - 1)) ELSE s

\* String.prototype.trim on an item name
Trim(s) == TrimEnd(TrimStart(s))

\* String.prototype.split(" to ") on the value of the date range input:
\* the pieces between the separators; "" splits into one empty piece
RECURSIVE SplitTo(_, _)
SplitTo(s, piece) ==
    IF s = <<>> THEN <<piece>>
    ELSE IF Head(s) = ToSep THEN <<piece>> \o SplitTo(Tail(s), <<>>)
    ELSE SplitTo(Tail(s), Append(piece, Head(s)))

Split(s) == SplitTo(s, <<>>)

\* new Date(str).getTime(): the instant a date string denotes, NaN when the
\* string is not one date
DateValue(piece) ==
    IF Len(piece) = 1 /\ piece[1].kind = "date" THEN piece[1].day ELSE NaN

\* DateGreater with the comparison left out
DateGreaterNever(b, e) == FALSE

\* begin > end on two Dates: false when either is an invalid date
DateGreater(b, e) == b # NaN /\ e # NaN /\ b > e

\* initialDatePickerRange
initialDatePickerRange == <<Today - RangeDays, Today>>

\* NextVisible with the branch for step 3 left out
NextVisibleOnStep3(step) == step # totalSteps

\* updateButtons: which navigation buttons are displayed on a step
NextVisible(step) == step # totalSteps /\ step # 3
PrevVisible(step) == step # totalSteps /\ step # 1
RestartVisible(step) == step = totalSteps

\* handleFormSubmit listens to the form's submit event, which the form
\* fields of steps 1..3 can raise (submit button, Enter key)
SubmitPossible(step) == step # totalSteps

\* goToStep without the check of the range
goToStepUnchecked(step) == step

\* goToStep: the step the wizard is on after goToStep(step)
goToStep(step) ==
    IF step < 1 \/ step > totalSteps THEN currentStep ELSE step

\* validateStep: the field error a step's validation reports, NULL if valid
StepError(step) ==
    IF step = 1 THEN
        IF Trim(itemNameField) = <<>>
        THEN [field |-> "itemName", message |-> "Item name is required"]
        ELSE NULL
    ELSE IF step = 2 THEN
        IF dateRangeField = <<>>
        THEN [field |-> "dateRange", message |-> "Date range is required"]
        ELSE IF Len(Split(dateRangeField)) # 2
        THEN [field |-> "dateRange",
              message |-> "Please select a valid date range"]
        ELSE NULL
    ELSE NULL

validateStep(step) == StepError(step) = NULL

-----------------------------------------------------------------------------
(* The download page *)

\* showDownloadError(message): the three writes it makes
showDownloadError(message) ==
    /\ downloadErrorText' = message
    /\ downloadErrorDisplay' = "block"
    /\ downloadContainerDisplay' = "none"

\* clearDownloadError
clearDownloadError ==
    /\ downloadErrorText' = EmptyText
    /\ downloadErrorDisplay' = "none"
    /\ downloadContainerDisplay' = "flex"

\* the download button lies in #downloadContainer, on the page of step 4
DownloadVisible == currentStep = totalSteps /\ downloadContainerDisplay # "none"

-----------------------------------------------------------------------------
(* Messages of the export pipeline *)

NoFormDataMessage == [template |-> "No export form data available!"]

UnitRejectMessage(p) ==
    [template |-> "Error fetching item metadata for ${itemName}: ${err.message}",
     itemName |-> p.itemName]

UnitStatusMessage(p, res) ==
    [template |->
       "Failed to fetch item metadata for ${itemName}: ${res.status} ${res.statusText}",
     itemName |-> p.itemName, status |-> res.status]

HistoryRejectMessage(p) ==
    [template |-> "Network error fetching history for ${itemName}: ${err.message}",
     itemName |-> p.itemName]

\* HistoryStatusMessage without the item name
HistoryStatusMessageNoItem(p, res) ==
    [template |-> "Failed to fetch history: ${res.status}",
     status |-> res.status]

HistoryStatusMessage(p, res) ==
    [template |-> "Failed to fetch history for ${itemName}: ${res.status}",
     itemName |-> p.itemName, status |-> res.status]

NoDataMessage(p) ==
    [template |-> "No data found for ${itemName} in range ${beginDate} to ${endDate}",
     itemName |-> p.itemName, beginDate |-> p.beginDate, endDate |-> p.endDate]

-----------------------------------------------------------------------------
(* Requests *)

\* the message of the SyntaxError res.json() rejects with when the body is
\* not JSON
JsonErrorMessage == [template |-> "Unexpected token < in JSON at position 0"]

\* fetchItemUnit: GET /rest/items/{itemName}
UnitRequest(p) == [path |-> "/rest/items/", itemName |-> p.itemName]

\* handleDownload: the ISO bounds of the whole days
startISO(p) == [date |-> p.beginDate, time |-> "T00:00:00.000Z"]
endISO(p) == [date |-> p.endDate, time |-> "T23:59:59.999Z"]

\* fetchPersistenceData: GET /rest/persistence/items/{itemName}?starttime=&endtime=
HistoryRequest(p) ==
    [path |-> "/rest/persistence/items/", itemName |-> p.itemName,
     starttime |-> startISO(p), endtime |-> endISO(p)]

\* handleDownload: const filename
Filename(p) ==
    [itemName |-> p.itemName, beginDate |-> p.beginDate, endDate |-> p.endDate]

\* ParamsOf reading exportFormData again after an await
ParamsOfCurrent(e) == IF exportFormData # NULL THEN exportFormData ELSE e.params

\* the parameters an invocation works with: the destructured exportFormData
ParamsOf(e) == e.params

-----------------------------------------------------------------------------
(* Initial state: the page before DOMContentLoaded *)

PageBeforeLoad ==
    /\ loaded = FALSE
    /\ currentStep = 1
    /\ exportFormData = NULL
    /\ itemNameField = <<>>
    /\ dateRangeField = <<>>
    /\ fileFormatField = "CSV"
    /\ itemNameError = ""
    /\ dateRangeError = ""
    /\ downloadErrorText = EmptyText
    /\ downloadErrorDisplay = "none"
    /\ downloadContainerDisplay = "flex"
    /\ exports = EmptyBag
    /\ completed = NULL

Init ==
    /\ PageBeforeLoad
    /\ pure = NULL

-----------------------------------------------------------------------------
(* Page load *)

\* initializeDatePicker: flatpickr writes defaultDate, formatted Y-m-d, into
\* the input
initializeDatePicker ==
    dateRangeField' = <<Ymd(initialDatePickerRange[1]), ToSep,
                        Ymd(initialDatePickerRange[2])>>

\* checkQueryParameters without the goToStep(2)
checkQueryParametersNoSkip(query) ==
    IF query.present /\ query.value # <<>>
    THEN /\ itemNameField' = query.value
         /\ UNCHANGED currentStep
    ELSE UNCHANGED <<itemNameField, currentStep>>

\* checkQueryParameters
checkQueryParameters(query) ==
    IF query.present /\ query.value # <<>>
    THEN /\ itemNameField' = query.value
         /\ currentStep' = goToStep(2)
    ELSE UNCHANGED <<itemNameField, currentStep>>

\* the DOMContentLoaded listener
DOMContentLoaded(query) ==
    /\ ~loaded
    /\ loaded' = TRUE
    /\ initializeDatePicker
    /\ checkQueryParameters(query)
    /\ UNCHANGED <<pure, exportFormData, fileFormatField, fieldErrorVars,
                   downloadPageVars, exports>>
    /\ completed' = NULL

-----------------------------------------------------------------------------
(* Form input: the field of the step that is shown can be edited *)

\* typing into #itemName; its input listener clears the field's error
InputItemName(v) ==
    /\ loaded
    /\ completed = NULL
    /\ currentStep = 1
    /\ itemNameField' = v
    /\ itemNameError' = ""
    /\ UNCHANGED <<pure, loaded, currentStep, exportFormData, dateRangeField,
                   fileFormatField, dateRangeError, downloadPageVars, exports>>
    /\ completed' = NULL

\* picking dates in #dateRange; its change listener clears the field's error
InputDateRange(v) ==
    /\ loaded
    /\ completed = NULL
    /\ currentStep = 2
    /\ dateRangeField' = v
    /\ dateRangeError' = ""
    /\ UNCHANGED <<pure, loaded, currentStep, exportFormData, itemNameField,
                   fileFormatField, itemNameError, downloadPageVars, exports>>
    /\ completed' = NULL

\* checking one of the fileFormat radio inputs
SelectFormat(f) ==
    /\ loaded
    /\ completed = NULL
    /\ currentStep = 3
    /\ fileFormatField' = f
    /\ UNCHANGED <<pure, loaded, currentStep, exportFormData, itemNameField,
                   dateRangeField, fieldErrorVars, downloadPageVars, exports>>
    /\ completed' = NULL

-----------------------------------------------------------------------------
(* Step navigation *)

\* clearFieldErrors followed by the showFieldError of a failed validation
ShowStepError(err) ==
    /\ itemNameError' =
         IF err # NULL /\ err.field = "itemName" THEN err.message ELSE ""
    /\ dateRangeError' =
         IF err # NULL /\ err.field = "dateRange" THEN err.message ELSE ""

\* the click listener of #nextBtn
ClickNext ==
    /\ loaded
    /\ completed = NULL
    /\ NextVisible(currentStep)
    /\ ShowStepError(StepError(currentStep))
    /\ currentStep' =
         IF validateStep(currentStep) THEN goToStep(currentStep + 1)
         ELSE currentStep
    /\ UNCHANGED <<pure, loaded, exportFormData, formVars, downloadPageVars,
                   exports>>
    /\ completed' = NULL

\* the click listener of #prevBtn
ClickPrev ==
    /\ loaded
    /\ completed = NULL
    /\ PrevVisible(currentStep)
    /\ currentStep' = goToStep(currentStep - 1)
    /\ UNCHANGED <<pure, loaded, exportFormData, formVars, fieldErrorVars,
                   downloadPageVars, exports>>
    /\ completed' = NULL

\* handleFormSubmit: the outcome of its validation, as the field error and
\* the step it goes to, or the export parameters it stores
SubmitOutcome ==
    LET itemName == Trim(itemNameField)
        dates == Split(dateRangeField)
    IN  IF itemName = <<>> THEN
            [ok |-> FALSE, field |-> "itemName",
             message |-> "Item name is required", step |-> 1]
        ELSE IF dateRangeField = <<>> THEN
            [ok |-> FALSE, field |-> "dateRange",
             message |-> "Date range is required", step |-> 2]
        ELSE IF Len(dates) # 2 THEN
            [ok |-> FALSE, field |-> "dateRange",
             message |-> "Please select a valid date range", step |-> 2]
        ELSE IF DateGreater(DateValue(dates[1]), DateValue(dates[2])) THEN
            [ok |-> FALSE, field |-> "dateRange",
             message |-> "Begin date must be before end date", step |-> 2]
        ELSE
            [ok |-> TRUE,
             data |-> [itemName |-> itemName, beginDate |-> dates[1],
                       endDate |-> dates[2], fileFormat |-> fileFormatField],
             step |-> 4]

\* handleFormSubmit
handleFormSubmit ==
    /\ loaded
    /\ completed = NULL
    /\ SubmitPossible(currentStep)
    /\ LET out == SubmitOutcome
       IN  /\ currentStep' = goToStep(out.step)
           /\ IF out.ok
              THEN /\ exportFormData' = out.data
                   /\ UNCHANGED fieldErrorVars
              ELSE /\ UNCHANGED exportFormData
                   /\ itemNameError' =
                        IF out.field = "itemName" THEN out.message
                        ELSE itemNameError
                   /\ dateRangeError' =
                        IF out.field = "dateRange" THEN out.message
                        ELSE dateRangeError
    /\ UNCHANGED <<pure, loaded, formVars, downloadPageVars, exports>>
    /\ completed' = NULL

\* handleRestart
handleRestart ==
    /\ loaded
    /\ completed = NULL
    /\ RestartVisible(currentStep)
    /\ exportFormData' = NULL
    /\ itemNameField' = <<>>
    /\ dateRangeField' = <<DateToString(initialDatePickerRange[1]), ToSep,
                           DateToString(initialDatePickerRange[2])>>
    /\ fileFormatField' = "CSV"
    /\ itemNameError' = ""
    /\ dateRangeError' = ""
    /\ clearDownloadError
    /\ currentStep' = goToStep(1)
    /\ UNCHANGED <<pure, loaded, exports>>
    /\ completed' = NULL

-----------------------------------------------------------------------------
(* The export: handleDownload, one step per stretch between two awaits *)

\* an invocation of handleDownload that found no export parameters
RejectedExport ==
    [params |-> NULL, filename |-> NULL, pc |-> "done",
     requests |-> <<>>, events |-> <<"error">>, unit |-> <<>>,
     outcome |-> "error", error |-> NoFormDataMessage, item |-> NULL,
     json |-> NULL,
     file |-> NULL]

\* StartedExport issuing both requests at once
StartedExportParallel(data) ==
    [params |-> data, filename |-> Filename(data), pc |-> "awaitUnit",
     requests |-> <<UnitRequest(data), HistoryRequest(data)>>,
     events |-> <<"unitRequest", "historyRequest">>,
     unit |-> <<>>, outcome |-> "pending", error |-> EmptyText, item |-> NULL, json |-> NULL,
     file |-> NULL]

\* an invocation of handleDownload up to its first await: the parameters are
\* destructured, the filename is built, fetchItemUnit issues its request
StartedExport(data) ==
    [params |-> data, filename |-> Filename(data), pc |-> "awaitUnit",
     requests |-> <<UnitRequest(data)>>, events |-> <<"unitRequest">>,
     unit |-> <<>>, outcome |-> "pending", error |-> EmptyText, item |-> NULL, json |-> NULL,
     file |-> NULL]

\* handleDownload, the synchronous part run by the click on #downloadBtn
handleDownload ==
    /\ loaded
    /\ completed = NULL
    /\ DownloadVisible
    /\ BagCardinality(exports) < MaxInFlight
    /\ IF exportFormData = NULL
       THEN /\ showDownloadError(NoFormDataMessage)
            /\ completed' = RejectedExport
            /\ UNCHANGED exports
       ELSE /\ clearDownloadError
            /\ exports' = exports (+) SetToBag({StartedExport(exportFormData)})
            /\ completed' = NULL
    /\ UNCHANGED <<pure, loaded, currentStep, exportFormData, formVars,
                   fieldErrorVars>>

\* the invocations in flight without invocation e
Without(e) == exports (-) SetToBag({e})

\* FailExport that rejects without showing the error
FailExportSilent(e, message) ==
    /\ UNCHANGED downloadPageVars
    /\ completed' = [e EXCEPT !.pc = "done",
                              !.outcome = "error",
                              !.error = message,
                              !.events = Append(@, "error")]
    /\ exports' = Without(e)

\* the catch block of handleDownload's first try: showDownloadError(err.message)
\* and the rejection of the invocation
FailExport(e, message) ==
    /\ showDownloadError(message)
    /\ completed' = [e EXCEPT !.pc = "done",
                              !.outcome = "error",
                              !.error = message,
                              !.events = Append(@, "error")]
    /\ exports' = Without(e)

\* fetchItemUnit: the error it throws for a response, NULL if none
UnitError(p, res) ==
    CASE res.kind = "reject" -> UnitRejectMessage(p)
      [] res.kind = "status" -> UnitStatusMessage(p, res)
      [] res.kind = "badJson" -> JsonErrorMessage
      [] OTHER -> NULL

\* fetchItemUnit: json.unitSymbol || ""
UnitOf(res) == IF res.hasUnit THEN res.unitSymbol ELSE <<>>

\* the unit lookup's response arrives: fetchItemUnit returns (item is the
\* body it read the unit from) or throws, and on return fetchPersistenceData
\* issues its request
UnitResponse(e, res) ==
    /\ completed = NULL
    /\ BagIn(e, exports)
    /\ e.pc = "awaitUnit"
    /\ LET p == ParamsOf(e)
           err == UnitError(p, res)
       IN  IF err # NULL
           THEN FailExport(e, err)
           ELSE /\ exports' = Without(e) (+) SetToBag({
                     [e EXCEPT
                        !.pc = "awaitHistory",
                        !.item = res,
                        !.unit = UnitOf(res),
                        !.requests = Append(@, HistoryRequest(p)),
                        !.events = @ \o <<"unitOk", "historyRequest">>]})
                /\ completed' = NULL
                /\ UNCHANGED downloadPageVars
    /\ UNCHANGED <<pure, loaded, currentStep, exportFormData, formVars,
                   fieldErrorVars>>

\* fetchPersistenceData: json.data || []
DataOf(res) == IF res.hasData THEN res.data ELSE <<>>

\* HistoryError without the check for zero datapoints
HistoryErrorNoEmptyCheck(p, res) ==
    CASE res.kind = "reject" -> HistoryRejectMessage(p)
      [] res.kind = "status" -> HistoryStatusMessage(p, res)
      [] res.kind = "badJson" -> JsonErrorMessage
      [] OTHER -> NULL

\* fetchPersistenceData: the error it throws for a response, NULL if none
HistoryError(p, res) ==
    CASE res.kind = "reject" -> HistoryRejectMessage(p)
      [] res.kind = "status" -> HistoryStatusMessage(p, res)
      [] res.kind = "badJson" -> JsonErrorMessage
      [] Len(DataOf(res)) = 0 -> NoDataMessage(p)
      [] OTHER -> NULL

\* Rows with the datapoints in reverse order
RowsReversed(p, data) ==
    [k \in 1..Len(data) |->
       [item |-> p.itemName, time |-> data[Len(data) + 1 - k].time,
        utcIso |-> toISOString(data[Len(data) + 1 - k].time),
        localIso |-> formatLocalISO(data[Len(data) + 1 - k].time),
        value |-> data[Len(data) + 1 - k].state]]

\* fetchPersistenceData: the rows built from the datapoints, in their order
Rows(p, data) ==
    [k \in 1..Len(data) |->
       [item |-> p.itemName, time |-> data[k].time,
        utcIso |-> toISOString(data[k].time),
        localIso |-> formatLocalISO(data[k].time),
        value |-> data[k].state]]

\* the column titles of the CSV header
HeaderNames == <<"Item Name", "UTC Time", "Local Time", "Value", "Unit">>

\* handleDownload: const header.  Array.prototype.map calls escapeCSVField
\* with the title and its index, so the index is taken for the delimiter.
CsvHeader ==
    Join([k \in 1..Len(HeaderNames) |->
            escapeCSVField(<<HeaderNames[k]>>, DigitChars[k])], <<COMMA>>)
    \o <<LF>>

\* CsvRow with an empty last field whatever the unit
CsvRowNoUnit(dp, unit) ==
    Join(<<escapeCSVField(dp.item, COMMA),
           escapeCSVField(dp.utcIso, COMMA),
           escapeCSVField(dp.localIso, COMMA),
           dp.value,
           <<>>>>, <<COMMA>>)
    \o <<LF>>

\* handleDownload: const row, the CSV line of one row
CsvRow(dp, unit) ==
    Join(<<escapeCSVField(dp.item, COMMA),
           escapeCSVField(dp.utcIso, COMMA),
           escapeCSVField(dp.localIso, COMMA),
           dp.value,
           IF unit # <<>> THEN escapeCSVField(unit, COMMA) ELSE <<>>>>,
         <<COMMA>>)
    \o <<LF>>

\* handleDownload: const content = csvParts.join("")
CsvContent(rows, unit) ==
    Concat(<<CsvHeader>> \o [k \in 1..Len(rows) |-> CsvRow(rows[k], unit)])

JsonNull == [type |-> "null"]
JsonString(s) == [type |-> "string", value |-> s]

\* handleDownload: const jsonOut, the object JSON.stringify serializes (a
\* Date is serialized by its toISOString)
JsonOut(p, rows, unit) ==
    [itemName |-> JsonString(p.itemName),
     unit |-> IF unit # <<>> THEN JsonString(unit) ELSE JsonNull,
     beginDate |-> p.beginDate,
     endDate |-> p.endDate,
     datapoints |-> Len(rows),
     data |-> [k \in 1..Len(rows) |->
                 [time |-> toISOString(rows[k].time),
                  timeUtc |-> rows[k].utcIso,
                  timeLocal |-> rows[k].localIso,
                  value |-> rows[k].value]]]

\* ExportFile without the branch for JSON
ExportFileCsvOnly(e, p, rows) ==
    IF p.fileFormat = "CSV" THEN
        [filename |-> e.filename, type |-> "text/csv;charset=utf-8",
         format |-> "CSV", content |-> CsvContent(rows, e.unit)]
    ELSE NULL

\* handleDownload: the blob handed to downloadFile for a file format, NULL
\* when the format is neither CSV nor JSON
ExportFile(e, p, rows) ==
    IF p.fileFormat = "CSV" THEN
        [filename |-> e.filename, type |-> "text/csv;charset=utf-8",
         format |-> "CSV", content |-> CsvContent(rows, e.unit)]
    ELSE IF p.fileFormat = "JSON" THEN
        [filename |-> e.filename, type |-> "application/json;charset=utf-8",
         format |-> "JSON", content |-> JsonOut(p, rows, e.unit)]
    ELSE NULL

\* handleDownload after fetchPersistenceData returned: the invocation (whose
\* json is the body of the history response) ends, having called
\* downloadFile with the blob if there is one
Delivered(e, file) ==
    [e EXCEPT
       !.pc = "done",
       !.outcome = IF file = NULL THEN "nothing" ELSE "downloaded",
       !.file = file,
       !.events = IF file = NULL THEN Append(@, "historyOk")
                  ELSE @ \o <<"historyOk", "downloadFile">>]

\* the history response arrives: fetchPersistenceData returns or throws, and
\* on return the rows are serialized and handed to downloadFile
HistoryResponse(e, res) ==
    /\ completed = NULL
    /\ BagIn(e, exports)
    /\ e.pc = "awaitHistory"
    /\ LET p == ParamsOf(e)
           err == HistoryError(p, res)
       IN  IF err # NULL
           THEN FailExport(e, err)
           ELSE /\ exports' = Without(e)
                /\ UNCHANGED downloadPageVars
                /\ completed' =
                     Delivered([e EXCEPT !.json = res],
                               ExportFile(e, p, Rows(p, DataOf(res))))
    /\ UNCHANGED <<pure, loaded, currentStep, exportFormData, formVars,
                   fieldErrorVars>>

\* handleDownload returns: the promise of the completed invocation settles
\* (it is rejected after an error), before any other listener runs
Settle ==
    /\ completed # NULL
    /\ completed' = NULL
    /\ UNCHANGED <<pure, loaded, currentStep, exportFormData, formVars,
                   fieldErrorVars, downloadPageVars, exports>>

-----------------------------------------------------------------------------
(* Specification *)

Load == \E q \in QueryValues : DOMContentLoaded(q)

Input ==
    \/ \E v \in ItemNameInputs : InputItemName(v)
    \/ \E v \in DateRangeInputs : InputDateRange(v)
    \/ \E f \in FileFormats : SelectFormat(f)

Respond ==
    \/ \E e \in BagToSet(exports) : \E res \in UnitResponses :
          UnitResponse(e, res)
    \/ \E e \in BagToSet(exports) : \E res \in HistoryResponses :
          HistoryResponse(e, res)

Next ==
    \/ Load
    \/ Input
    \/ ClickNext
    \/ ClickPrev
    \/ handleFormSubmit
    \/ handleDownload
    \/ handleRestart
    \/ Respond
    \/ Settle

Spec == Init /\ [][Next]_vars

-----------------------------------------------------------------------------
(* The lib.js functions on their own: one call of escapeCSVField or of     *)
(* formatLocalISO, on an argument drawn from a bounded set                 *)

\* the characters of the strings: a letter, the comma, the quote, the line
\* breaks and the other delimiters
FieldChars == {"a", COMMA, DQ, CR, LF, ";", "]", "^", "\\"}

FieldStrings == UNION {[1..n -> FieldChars] : n \in 0..MaxFieldLen}

Delimiters == {COMMA, ";", "]", "^", "\\"}

\* Date objects, by the fields formatLocalISO reads and the milliseconds
LocalDates ==
    [year : {999, 2024}, month : {0, 11}, date : {1, 31}, hours : {0, 23},
     minutes : {5}, seconds : {0, 59}, ms : {0, 500},
     timezoneOffset : {-345, 0, 300}]

PureInputs ==
    {[fn |-> "escapeCSVField", s |-> s, delimiter |-> d, done |-> FALSE,
      out |-> <<>>] : s \in FieldStrings, d \in Delimiters}
    \cup
    {[fn |-> "formatLocalISO", d |-> d, done |-> FALSE, out |-> <<>>] :
        d \in LocalDates}

PureInit ==
    /\ PageBeforeLoad
    /\ pure \in PureInputs

CallEscapeCSVField ==
    /\ pure.fn = "escapeCSVField"
    /\ ~pure.done
    /\ pure' = [pure EXCEPT !.done = TRUE,
                            !.out = escapeCSVField(pure.s, pure.delimiter)]
    /\ UNCHANGED wizardVars

CallFormatLocalISO ==
    /\ pure.fn = "formatLocalISO"
    /\ ~pure.done
    /\ pure' = [pure EXCEPT !.done = TRUE, !.out = formatLocalISO(pure.d)]
    /\ UNCHANGED wizardVars

PureNext == CallEscapeCSVField \/ CallFormatLocalISO

PureSpec == PureInit /\ [][PureNext]_vars

-----------------------------------------------------------------------------
(* Properties *)

InFlight == BagToSet(exports)

\* the invocations the state shows: those in flight and the one just completed
Known == InFlight \cup (IF completed = NULL THEN {} ELSE {completed})

Has(e, ev) == \E k \in 1..Len(e.events) : e.events[k] = ev

\* event a occurs in evs, and before every occurrence of event b
Before(evs, a, b) ==
    /\ \E k \in 1..Len(evs) : evs[k] = a
    /\ \A j \in 1..Len(evs) :
         evs[j] = b => \E k \in 1..(j - 1) : evs[k] = a

\* a unit lookup that fails: network error or non-2xx status
UnitFails(res) == res.kind \in {"reject", "status"}

\* a history response without datapoints: data missing or empty
ZeroDatapoints(res) ==
    res.kind = "json" /\ (~res.hasData \/ Len(res.data) = 0)

\* a history fetch that fails: network error, non-2xx status, zero datapoints
HistoryFails(res) == res.kind \in {"reject", "status"} \/ ZeroDatapoints(res)

\* the step completed invocation e without a call of downloadFile
CompletedWithoutFile(e) ==
    /\ completed' # NULL
    /\ completed'.params = e.params
    /\ completed'.file = NULL
    /\ ~Has(completed', "downloadFile")
    /\ BagCardinality(exports') = BagCardinality(exports) - 1

\* C1: all-or-nothing export: an invocation of handleDownload whose unit
\* lookup fails, whose history fetch fails or whose history response holds
\* zero datapoints completes in that step without calling downloadFile.
C1_AllOrNothing ==
    [][exports' # exports =>
         \A e \in InFlight :
            /\ \A res \in {r \in UnitResponses : UnitFails(r)} :
                 UnitResponse(e, res) => CompletedWithoutFile(e)
            /\ \A res \in {r \in HistoryResponses : HistoryFails(r)} :
                 HistoryResponse(e, res) => CompletedWithoutFile(e)]_vars

\* C1 witness: an invocation has just failed on a history response with zero
\* datapoints, and no file was delivered.
C1_Witness ==
    /\ completed # NULL
    /\ completed.params # NULL
    /\ completed.error = NoDataMessage(completed.params)
    /\ completed.file = NULL

\* C2: strict stage order within an invocation: the history request is
\* issued only after the unit lookup returned successfully (one request per
\* request event, so a failed unit lookup leaves the unit request alone),
\* and downloadFile is called only after both requests returned successfully.
C2_StageOrder ==
    \A e \in Known :
       /\ Has(e, "historyRequest") => Before(e.events, "unitOk", "historyRequest")
       /\ Has(e, "downloadFile") =>
             /\ Before(e.events, "unitOk", "downloadFile")
             /\ Before(e.events, "historyOk", "downloadFile")
             /\ Before(e.events, "historyRequest", "historyOk")
       /\ Len(e.requests) =
             Cardinality({k \in 1..Len(e.events) :
                            e.events[k] \in {"unitRequest", "historyRequest"}})
       /\ (e.file # NULL) = Has(e, "downloadFile")
       /\ (~Has(e, "unitOk") => Len(e.requests) <= 1)

\* C2 witness: an invocation has just delivered its file.
C2_Witness ==
    /\ completed # NULL
    /\ completed.outcome = "downloaded"
    /\ Len(completed.requests) = 2

\* the date range input holds a begin date after its end date
BeginAfterEnd ==
    LET dates == Split(dateRangeField)
    IN  /\ Len(dates) = 2
        /\ DateValue(dates[1]) # NaN
        /\ DateValue(dates[2]) # NaN
        /\ DateValue(dates[1]) > DateValue(dates[2])

\* C3: a Submit whose begin date is after its end date is rejected: the
\* export parameters are not stored, the wizard does not reach step 4 and no
\* request is issued; no invocation ever works on such a range.
C3_ReversedRangeRejected ==
    /\ [][handleFormSubmit /\ BeginAfterEnd =>
            /\ exportFormData' = exportFormData
            /\ currentStep' # totalSteps
            /\ exports' = exports]_vars
    /\ [](\A e \in Known :
            e.params # NULL =>
               ~(/\ DateValue(e.params.beginDate) # NaN
                 /\ DateValue(e.params.endDate) # NaN
                 /\ DateValue(e.params.beginDate) > DateValue(e.params.endDate)))

\* C3 witness: a Submit has just rejected a reversed range.
C3_Witness ==
    /\ BeginAfterEnd
    /\ dateRangeError = "Begin date must be before end date"
    /\ currentStep = 2
    /\ exportFormData = NULL
    /\ Trim(itemNameField) # <<>>

\* C4: at most one invocation of handleDownload is in flight at any time.
C4_SingleFlight == BagCardinality(exports) <= 1

MentionsItem(msg, p) ==
    "itemName" \in DOMAIN msg /\ msg.itemName = p.itemName

MentionsRange(msg, p) ==
    /\ {"beginDate", "endDate"} \subseteq DOMAIN msg
    /\ msg.beginDate = p.beginDate
    /\ msg.endDate = p.endDate

\* the invocation just completed failed in its history fetch
HistoryFetchFailed ==
    /\ completed # NULL
    /\ completed.outcome = "error"
    /\ Has(completed, "historyRequest")

\* C5 as stated: every history-fetch failure surfaces an error message that
\* identifies both the item and the requested date range.
C5_HistoryErrorNamesItemAndRange ==
    HistoryFetchFailed =>
       /\ downloadErrorText = completed.error
       /\ MentionsItem(downloadErrorText, completed.params)
       /\ MentionsRange(downloadErrorText, completed.params)

\* C5 amended: every history-fetch failure (network error, non-2xx status,
\* zero datapoints) surfaces an error message that identifies the item; the
\* message for zero datapoints also identifies the requested date range.
C5_HistoryErrorNamesItem ==
    [][exports' # exports =>
         \A e \in InFlight :
            \A res \in {r \in HistoryResponses : HistoryFails(r)} :
               HistoryResponse(e, res) =>
                  /\ downloadErrorDisplay' = "block"
                  /\ MentionsItem(downloadErrorText', e.params)
                  /\ ZeroDatapoints(res) =>
                        MentionsRange(downloadErrorText', e.params)]_vars

\* C5 witness: a history fetch has just failed with a non-2xx status, and the
\* message shown names the item.
C5_Witness ==
    /\ HistoryFetchFailed
    /\ "status" \in DOMAIN downloadErrorText
    /\ MentionsItem(downloadErrorText, completed.params)

\* C6: when an invocation fails, at the moment it completes its non-empty
\* error message is shown on the download page and the download container
\* is hidden.
C6_ErrorShown ==
    (completed # NULL /\ completed.outcome = "error") =>
       /\ completed.error.template # ""
       /\ downloadErrorText = completed.error
       /\ downloadErrorDisplay = "block"
       /\ downloadContainerDisplay = "none"

\* C6 witness: an invocation has just failed in its unit lookup while the
\* download page is shown.
C6_Witness ==
    /\ completed # NULL
    /\ completed.outcome = "error"
    /\ ~Has(completed, "unitOk")
    /\ currentStep = totalSteps

\* C7: whenever the wizard is on step 4 the export parameters are stored,
\* and no download ends in "No export form data available!".
C7_FormDataOnStep4 ==
    /\ currentStep = totalSteps => exportFormData # NULL
    /\ downloadErrorText # NoFormDataMessage
    /\ \A e \in Known : e.params # NULL

\* C7 witness: a download was started from the download page and is in
\* flight.
C7_Witness ==
    /\ currentStep = totalSteps
    /\ DownloadVisible
    /\ InFlight # {}

\* what invocation e has produced uses the parameters it was started with
UsesOwnParams(e) ==
    /\ e.filename = Filename(e.params)
    /\ \A k \in 1..Len(e.requests) :
         LET r == e.requests[k]
         IN  /\ r.itemName = e.params.itemName
             /\ "starttime" \in DOMAIN r =>
                   /\ r.starttime.date = e.params.beginDate
                   /\ r.endtime.date = e.params.endDate
    /\ "itemName" \in DOMAIN e.error => MentionsItem(e.error, e.params)
    /\ "beginDate" \in DOMAIN e.error => MentionsRange(e.error, e.params)
    /\ e.file # NULL => e.file.filename = Filename(e.params)

\* invocation e went on in this step: it awaits the history response now, or
\* it has completed
Advanced(e) ==
    \/ \E f \in BagToSet(exports') :
          /\ f.params = e.params
          /\ f.pc = "awaitHistory"
          /\ e.pc = "awaitUnit"
    \/ /\ completed' # NULL
       /\ completed'.params = e.params
       /\ completed'.pc = "done"

\* C8: an invocation in flight cannot be aborted and is self-contained: no
\* step (Restart and Submit included) removes it other than by taking it on
\* to its next stage or to completion, a response to it is possible whenever
\* no handler is running,
\* and its requests, filename and error text use the parameters stored when
\* it was started.
C8_SelfContained ==
    /\ [](\A e \in Known : e.params # NULL => UsesOwnParams(e))
    /\ [](\A e \in InFlight :
            \/ completed # NULL
            \/ e.pc = "awaitUnit"
               /\ ENABLED (\E res \in UnitResponses : UnitResponse(e, res))
            \/ e.pc = "awaitHistory"
               /\ ENABLED (\E res \in HistoryResponses : HistoryResponse(e, res)))
    /\ [][exports' # exports =>
            \A e \in InFlight :
               CopiesIn(e, exports') >= CopiesIn(e, exports) \/ Advanced(e)]_vars

\* C8 witness: an invocation has just delivered its file although Restart
\* and a new Submit have stored other parameters since it was started.
C8_Witness ==
    /\ completed # NULL
    /\ completed.outcome = "downloaded"
    /\ exportFormData # NULL
    /\ exportFormData # completed.params
    /\ completed.file.filename = Filename(completed.params)

\* C9: on load, an itemname query parameter with a value pre-fills the item
\* name field with it and puts the wizard on step 2; without the parameter,
\* or with an empty value, the wizard stays on step 1 with the field as it
\* was.
C9_QueryParameter ==
    [][\A q \in QueryValues :
         DOMContentLoaded(q) =>
            IF q.present /\ q.value # <<>>
            THEN itemNameField' = q.value /\ currentStep' = 2
            ELSE itemNameField' = itemNameField /\ currentStep' = 1]_vars

\* C9 witness: the page was loaded with a blank item name in the query, which
\* is in the field with the wizard on step 2.
C9_Witness ==
    /\ loaded
    /\ currentStep = 2
    /\ itemNameField = <<" ">>
    /\ exportFormData = NULL

\* C10: the wizard is never on a step after step 1 while the trimmed item
\* name is empty.
C10_ItemNameBeyondStep1 ==
    currentStep > 1 => Trim(itemNameField) # <<>>

-----------------------------------------------------------------------------
(* The exported files *)

\* the invocation that has just delivered a file of the given format
DeliveredFile(format) ==
    /\ completed # NULL
    /\ completed.outcome = "downloaded"
    /\ completed.file.format = format

\* the datapoints of the history response the completed invocation received
BackendData == completed.json.data

\* the CSV line of a datapoint: item name, UTC time, local time, value and
\* unit, separated by commas and terminated by LF
LineOf(itemName, dp, unit) ==
    escapeCSVField(itemName, COMMA) \o <<COMMA>> \o toISOString(dp.time)
    \o <<COMMA>> \o formatLocalISO(dp.time) \o <<COMMA>> \o dp.state
    \o <<COMMA>> \o escapeCSVField(unit, COMMA) \o <<LF>>

TitleLine ==
    <<"Item Name", COMMA, "UTC Time", COMMA, "Local Time", COMMA, "Value",
      COMMA, "Unit", LF>>

\* C11: a delivered CSV file of N datapoints is the header line followed by
\* exactly N data lines, each terminated by LF, the i-th of them built from
\* the i-th datapoint of the backend's response (same order, none dropped,
\* none duplicated).
C11_CsvLinesInBackendOrder ==
    DeliveredFile("CSV") =>
        completed.file.content =
            TitleLine \o Concat([i \in 1..Len(BackendData) |->
                                   LineOf(completed.params.itemName,
                                          BackendData[i], completed.unit)])

\* C11 witness: a CSV file of two datapoints, which the backend sent with the
\* later one first, has been delivered.
C11_Witness ==
    /\ DeliveredFile("CSV")
    /\ Len(BackendData) = 2
    /\ BackendData[1].time.utcDay > BackendData[2].time.utcDay

-----------------------------------------------------------------------------
(* RFC 4180 *)

\* An RFC 4180 reader.  A field is either quoted (it may then hold
\* delimiters, line breaks and doubled quotes) or made of plain characters
\* only; a record ends at a line break.  A delimiter or line break
\* separates fields exactly when an even number of quotes precedes it.
Positions(text) == [i \in 1..Len(text) |-> i]

QuotesBefore(text, i) == Cardinality({j \in 1..(i - 1) : text[j] = DQ})

IsSeparator(text, delimiter, i) ==
    /\ text[i] \in {delimiter, LF}
    /\ QuotesBefore(text, i) % 2 = 0

\* the positions of the separators, in order
Separators(text, delimiter) ==
    SelectSeq(Positions(text), LAMBDA i : IsSeparator(text, delimiter, i))

\* the fields as written, each with the separator that ends it (the text
\* after the last separator is a field only if there is any)
RawFields(text, delimiter) ==
    LET seps == Separators(text, delimiter)
        start(k) == IF k = 1 THEN 1 ELSE seps[k - 1] + 1
        last == IF seps = <<>> THEN 0 ELSE seps[Len(seps)]
        closed == [k \in 1..Len(seps) |->
                     [raw |-> SubSeq(text, start(k), seps[k] - 1),
                      endsRecord |-> text[seps[k]] = LF]]
    IN  IF last = Len(text) THEN closed
        ELSE Append(closed, [raw |-> SubSeq(text, last + 1, Len(text)),
                             endsRecord |-> TRUE])

\* the value of a field as written: [ok, value]
DecodeField(raw) ==
    LET inner == SubSeq(raw, 2, Len(raw) - 1)
        quotes == SelectSeq(Positions(inner), LAMBDA i : inner[i] = DQ)
        paired == /\ Len(quotes) % 2 = 0
                  /\ \A k \in 1..Len(quotes) :
                        k % 2 = 1 => quotes[k + 1] = quotes[k] + 1
        second == {quotes[k] : k \in {j \in 1..Len(quotes) : j % 2 = 0}}
        kept == SelectSeq(Positions(inner), LAMBDA i : i \notin second)
    IN  IF \A i \in 1..Len(raw) : raw[i] \notin {DQ, CR}
        THEN [ok |-> TRUE, value |-> raw]
        ELSE IF Len(raw) >= 2 /\ raw[1] = DQ /\ raw[Len(raw)] = DQ /\ paired
        THEN [ok |-> TRUE, value |-> [k \in 1..Len(kept) |-> inner[kept[k]]]]
        ELSE [ok |-> FALSE, value |-> <<>>]

\* the records read from a text: [ok, records]
ParseCSV(text, delimiter) ==
    LET fields == RawFields(text, delimiter)
        ends == SelectSeq(Positions(fields), LAMBDA k : fields[k].endsRecord)
        first(r) == IF r = 1 THEN 1 ELSE ends[r - 1] + 1
    IN  [ok |-> \A k \in 1..Len(fields) : DecodeField(fields[k].raw).ok,
         records |->
            [r \in 1..Len(ends) |->
               [k \in 1..(ends[r] - first(r) + 1) |->
                  DecodeField(fields[first(r) + k - 1].raw).value]]]

\* the five values of the record of a datapoint
RecordOf(itemName, dp, unit) ==
    <<itemName, toISOString(dp.time), formatLocalISO(dp.time), dp.state, unit>>

TitleRecord ==
    <<<<"Item Name">>, <<"UTC Time">>, <<"Local Time">>, <<"Value">>,
      <<"Unit">>>>

\* C12: a delivered CSV file is well-formed RFC 4180: read by an RFC 4180
\* reader it yields the title record and one record per datapoint, each of
\* exactly five fields, whose values are the item name, the two timestamps,
\* the datapoint's value and the unit.
C12_CsvWellFormed ==
    DeliveredFile("CSV") =>
        LET parsed == ParseCSV(completed.file.content, COMMA)
        IN  /\ parsed.ok
            /\ Len(parsed.records) = 1 + Len(BackendData)
            /\ \A k \in 1..Len(parsed.records) : Len(parsed.records[k]) = 5
            /\ parsed.records[1] = TitleRecord
            /\ \A i \in 1..Len(BackendData) :
                  parsed.records[i + 1] =
                      RecordOf(completed.params.itemName, BackendData[i],
                               completed.unit)

\* a text read as one field: [ok, value]
ParseField(text, delimiter) ==
    IF Separators(text, delimiter) # <<>> THEN [ok |-> FALSE, value |-> <<>>]
    ELSE DecodeField(text)

\* a call of escapeCSVField that has returned
Escaped == pure.fn = "escapeCSVField" /\ pure.done

\* C13: for every string s and delimiter d, escapeCSVField(s, d) read as one
\* field by an RFC 4180 reader with delimiter d yields exactly s.
C13_EscapeRoundTrip ==
    Escaped =>
        LET parsed == ParseField(pure.out, pure.delimiter)
        IN  parsed.ok /\ parsed.value = pure.s

-----------------------------------------------------------------------------
(* ISO 8601 with offset *)

IsDigit(c) == \E n \in 1..10 : DigitChars[n] = c

DigitValue(c) == (CHOOSE n \in 1..10 : DigitChars[n] = c) - 1

\* the number a sequence of digits denotes
RECURSIVE NumberOf(_)
NumberOf(digits) ==
    IF digits = <<>> THEN 0
    ELSE 10 * NumberOf(SubSeq(digits, 1, Len(digits) - 1))
         + DigitValue(digits[Len(digits)])

\* the places of the punctuation in YYYY-MM-DDTHH:mm:ss+HH:MM
IsoPunctuation == {5, 8, 11, 14, 17, 20, 23}

\* the shape YYYY-MM-DDTHH:mm:ss+HH:MM or YYYY-MM-DDTHH:mm:ss-HH:MM
HasIsoShape(str) ==
    /\ Len(str) = 25
    /\ str[5] = "-" /\ str[8] = "-" /\ str[11] = "T"
    /\ str[14] = ":" /\ str[17] = ":" /\ str[23] = ":"
    /\ str[20] \in {"+", "-"}
    /\ \A i \in (1..25) \ IsoPunctuation : IsDigit(str[i])

\* the instant a string of that shape denotes, as a Date of the same offset
ParseLocalISO(str) ==
    LET num(from, to) == NumberOf(SubSeq(str, from, to))
        east == 60 * num(21, 22) + num(24, 25)
    IN  [year |-> num(1, 4), month |-> num(6, 7) - 1, date |-> num(9, 10),
         hours |-> num(12, 13), minutes |-> num(15, 16),
         seconds |-> num(18, 19), ms |-> 0,
         timezoneOffset |-> IF str[20] = "+" THEN -east ELSE east]

\* a call of formatLocalISO that has returned
Formatted == pure.fn = "formatLocalISO" /\ pure.done

\* the sign is "+" exactly for an offset of zero or east of UTC
SignOfOffset(str, d) == (str[Len(str) - 5] = "+") <=> (d.timezoneOffset <= 0)

-----------------------------------------------------------------------------
(* The requested range *)

\* the instant an ISO string `${date}T..Z` denotes: the day and the time of
\* day in UTC when the date part is one date written YYYY-MM-DD, else none
IsoInstant(iso) ==
    IF Len(iso.date) = 1 /\ iso.date[1].kind = "date"
       /\ iso.date[1].fmt = "Y-m-d"
    THEN [valid |-> TRUE, day |-> iso.date[1].day, time |-> iso.time]
    ELSE [valid |-> FALSE, day |-> NaN, time |-> ""]

\* the history requests an invocation has issued
HistoryRequests(e) ==
    SelectSeq(e.requests, LAMBDA r : r.path = "/rest/persistence/items/")

\* C15: for every stored request (beginDate, endDate) the single history
\* request carries starttime = beginDate at 00:00:00.000 UTC and endtime =
\* endDate at 23:59:59.999 UTC.
C15_WholeDaysUtc ==
    \A e \in Known :
       /\ Len(HistoryRequests(e)) <= 1
       /\ \A k \in 1..Len(HistoryRequests(e)) :
             LET r == HistoryRequests(e)[k]
             IN  /\ IsoInstant(r.starttime) =
                       [valid |-> TRUE, day |-> DateValue(e.params.beginDate),
                        time |-> "T00:00:00.000Z"]
                 /\ IsoInstant(r.endtime) =
                       [valid |-> TRUE, day |-> DateValue(e.params.endDate),
                        time |-> "T23:59:59.999Z"]

\* an instant lies between the begin day at 00:00:00.000 UTC and the end day
\* at 23:59:59.999 UTC: its UTC day is one of the days of the range
WithinRange(date, p) ==
    /\ DateValue(p.beginDate) # NaN
    /\ DateValue(p.endDate) # NaN
    /\ DateValue(p.beginDate) <= date.utcDay
    /\ date.utcDay <= DateValue(p.endDate)

\* C16: every datapoint of a delivered export (the file holds the datapoints
\* of the history response, all of them) has a timestamp within
\* [beginDate 00:00:00.000 UTC, endDate 23:59:59.999 UTC].
C16_DatapointsWithinRange ==
    (completed # NULL /\ completed.outcome = "downloaded") =>
        \A i \in 1..Len(BackendData) :
           WithinRange(BackendData[i].time, completed.params)

-----------------------------------------------------------------------------
(* The unit *)

\* the lines of a text: the pieces that end at a line break outside quotes
LinesOf(text) ==
    LET fields == RawFields(text, LF)
    IN  [k \in 1..Len(fields) |-> fields[k].raw]

EndsWith(line, suffix) ==
    /\ Len(line) >= Len(suffix)
    /\ SubSeq(line, Len(line) - Len(suffix) + 1, Len(line)) = suffix

\* the unit the item's metadata states, none when unitSymbol is absent
StatedUnit(e) == IF e.item.hasUnit THEN e.item.unitSymbol ELSE <<>>

\* C17: an absent unit is valid.  An invocation whose metadata lookup
\* succeeded goes on to the history fetch whether or not the metadata state
\* a unit (so it fails only with an error of the history fetch); a delivered
\* CSV file has the unit as the last field of every data line, an empty
\* field when the unit is absent, and a delivered JSON file has the unit as
\* its unit, null when the unit is absent.
C17_AbsentUnitIsValid ==
    \A e \in Known :
       e.item # NULL =>
          /\ e.unit = StatedUnit(e)
          /\ Has(e, "unitOk") /\ Has(e, "historyRequest")
          /\ e.outcome = "error" =>
                e.error \in {HistoryError(e.params, res) :
                                res \in HistoryResponses}
          /\ (e.outcome = "downloaded" /\ e.file.format = "CSV") =>
                LET lines == LinesOf(e.file.content)
                IN  /\ Len(lines) = 1 + Len(e.json.data)
                    /\ \A k \in 2..Len(lines) :
                          EndsWith(lines[k], <<COMMA>> \o StatedUnit(e))
          /\ (e.outcome = "downloaded" /\ e.file.format = "JSON") =>
                e.file.content.unit =
                    IF StatedUnit(e) = <<>> THEN JsonNull
                    ELSE JsonString(StatedUnit(e))

\* what a delivered file of the given format shows of the unit; the item's
\* metadata state a unit or not
DeliveredWithUnit(format, hasUnit) ==
    /\ DeliveredFile(format)
    /\ completed.item.hasUnit = hasUnit

\* C17 witness: a CSV file has been delivered for an item whose metadata
\* state no unit, so every data line ends with an empty field.
C17_Witness ==
    /\ DeliveredWithUnit("CSV", FALSE)
    /\ \A k \in 2..Len(LinesOf(completed.file.content)) :
          EndsWith(LinesOf(completed.file.content)[k], <<COMMA>>)

-----------------------------------------------------------------------------
(* Completion of an export *)

\* the number of calls of downloadFile an invocation has made
Downloads(e) == Cardinality({k \in 1..Len(e.events) : e.events[k] = "downloadFile"})

\* the invocation ended with exactly one outcome: downloadFile called once
\* and no error raised, or an error displayed and downloadFile not called
ExactlyOneOutcome(e) ==
    \/ /\ e.outcome = "downloaded"
       /\ Downloads(e) = 1 /\ e.file # NULL
       /\ ~Has(e, "error") /\ e.error = EmptyText
    \/ /\ e.outcome = "error"
       /\ Downloads(e) = 0 /\ e.file = NULL
       /\ Has(e, "error") /\ e.error # EmptyText
       /\ downloadErrorText = e.error /\ downloadErrorDisplay = "block"

\* a step takes invocation e out of flight and on: to the wait for the
\* history response, or to completion
TakenOn(e) ==
    \/ /\ e.pc = "awaitUnit"
       /\ completed' = NULL
       /\ \E f \in BagToSet(exports') :
             /\ f.pc = "awaitHistory" /\ f.params = e.params
             /\ exports' = Without(e) (+) SetToBag({f})
    \/ /\ completed' # NULL
       /\ completed'.pc = "done" /\ completed'.params = e.params
       /\ exports' = Without(e)

\* C18: every invocation started with stored export parameters completes
\* once its requests have returned, with exactly one outcome.  An invocation
\* in flight is pending and awaits one response; whatever that response is,
\* its arrival (possible as soon as the running handler has returned) takes
\* the invocation on to the wait for the history response or to completion,
\* so that two responses at most complete it; and a completed invocation has
\* called downloadFile once and raised no error, or displayed an error and
\* not called downloadFile, never both and never neither.
C18_CompletesWithOneOutcome ==
    /\ []((completed # NULL /\ completed.params # NULL) =>
             completed.pc = "done" /\ ExactlyOneOutcome(completed))
    /\ [](\A e \in InFlight :
             /\ e.outcome = "pending"
             /\ \/ completed # NULL /\ ENABLED Settle
                \/ e.pc = "awaitUnit"
                   /\ ENABLED (\E res \in UnitResponses : UnitResponse(e, res))
                \/ e.pc = "awaitHistory"
                   /\ ENABLED (\E res \in HistoryResponses :
                                  HistoryResponse(e, res)))
    /\ [][exports' # exports =>
            \A e \in InFlight :
               \/ TakenOn(e)
               \/ /\ \A res \in UnitResponses : ~UnitResponse(e, res)
                  /\ \A res \in HistoryResponses : ~HistoryResponse(e, res)]_vars

\* C18 witness: of two invocations started with the same parameters, one has
\* just completed with a file while the other still awaits a response.
C18_Witness ==
    /\ completed # NULL
    /\ completed.outcome = "downloaded"
    /\ \E e \in InFlight : e.params = completed.params

-----------------------------------------------------------------------------
(* The download page of a submitted request *)

\* the step arrives on step 4 (only a Submit does, see C7)
ArrivesOnDownloadPage == currentStep # totalSteps /\ currentStep' = totalSteps

\* the step, taken on step 4, shows an error on the download page or hides
\* the download container
SpoilsDownloadPage ==
    /\ currentStep = totalSteps /\ currentStep' = totalSteps
    /\ \/ downloadErrorDisplay # "block" /\ downloadErrorDisplay' = "block"
       \/ downloadContainerDisplay # "none"
          /\ downloadContainerDisplay' = "none"

\* the step completes, with an error, an invocation that was started for
\* the request that is stored
FailsStoredRequest ==
    /\ completed' # NULL
    /\ completed'.outcome = "error"
    /\ completed'.params = exportFormData

\* C19: when the wizard arrives on step 4 through a successful Submit, the
\* download page shows no error and the download container is visible, and
\* this stays so until a download of the submitted request fails: an error
\* of an export started for an earlier request is never shown for a later
\* one and never hides its download button.
C19_FreshDownloadPage ==
    [][/\ ArrivesOnDownloadPage =>
             /\ downloadErrorDisplay' = "none"
             /\ downloadErrorText' = EmptyText
             /\ downloadContainerDisplay' # "none"
       /\ SpoilsDownloadPage => FailsStoredRequest]_vars

-----------------------------------------------------------------------------
(* The wizard's steps *)

\* the step is one of Step1..Step4, and a move before step 1 (Previous on
\* step 1) or past step 4 leaves it unchanged
StepsKept ==
    /\ currentStep \in 1..totalSteps
    /\ goToStep(0) = currentStep
    /\ goToStep(totalSteps + 1) = currentStep
    /\ currentStep = 1 => goToStep(currentStep - 1) = currentStep
    /\ currentStep = totalSteps => goToStep(currentStep + 1) = currentStep

\* the step of the field a Submit finds fault with, 0 if it finds none
OffendingStep ==
    IF Trim(itemNameField) = <<>> THEN 1
    ELSE IF \/ dateRangeField = <<>>
            \/ Len(Split(dateRangeField)) # 2
            \/ DateGreater(DateValue(Split(dateRangeField)[1]),
                           DateValue(Split(dateRangeField)[2]))
    THEN 2
    ELSE 0

\* a step onto step 4 is a Submit that passed every validation and stores
\* the export parameters
Step4BySubmit ==
    (currentStep # totalSteps /\ currentStep' = totalSteps) =>
        /\ handleFormSubmit
        /\ OffendingStep = 0
        /\ exportFormData' # NULL
        /\ exportFormData'.itemName = Trim(itemNameField)
        /\ exportFormData'.fileFormat = fileFormatField

\* a Submit that fails validation leaves the stored export parameters
\* unchanged and moves the wizard to the step of the offending field
FailingSubmit ==
    (handleFormSubmit /\ OffendingStep # 0) =>
        /\ exportFormData' = exportFormData
        /\ currentStep' = OffendingStep

\* the step changes only through Next, Previous, Submit and Restart
ChangedByFourTransitions ==
    currentStep' # currentStep =>
        ClickNext \/ ClickPrev \/ handleFormSubmit \/ handleRestart

\* the step changes only through Next, Previous, Submit, Restart and the
\* page load, which goes from step 1 to step 2
ChangedByFourTransitionsOrLoad ==
    currentStep' # currentStep =>
        \/ ClickNext
        \/ ClickPrev
        \/ handleFormSubmit
        \/ handleRestart
        \/ (Load /\ currentStep = 1 /\ currentStep' = 2)

\* C20 as stated: the step is always one of Step1..Step4 and changes only
\* through Next, Previous, Submit and Restart; Previous on step 1 and a move
\* past step 4 leave it unchanged; step 4 is entered only by a Submit that
\* passed every validation, which stores the export parameters; a Submit
\* that fails validation leaves the stored parameters unchanged and moves
\* the wizard to the step of the offending field.
C20_StepsByFourTransitions ==
    /\ []StepsKept
    /\ [][ChangedByFourTransitions /\ Step4BySubmit /\ FailingSubmit]_vars

\* C20 amended: as C20, the step changing through Next, Previous, Submit,
\* Restart and the page load, which goes to step 2 when the URL names an
\* item.
C20_StepsByFourTransitionsAndLoad ==
    /\ []StepsKept
    /\ [][ChangedByFourTransitionsOrLoad /\ Step4BySubmit
            /\ FailingSubmit]_vars

\* C20 witness: a Submit made on step 3 has found the date range reversed
\* and has moved the wizard back to step 2, nothing being stored.
C20_Witness ==
    /\ currentStep = 2
    /\ dateRangeError = "Begin date must be before end date"
    /\ OffendingStep = 2
    /\ exportFormData = NULL
====
